---- MODULE Spec2Model ----
(***************************************************************************)
(* Local-estimator kernels of netket.vqs.mc.kernels (MCState and           *)
(* MCMixedState): dense, flattened and chunked forms.                      *)
(*                                                                         *)
(* Arrays are sequences (1-based; the source is 0-based).  A configuration *)
(* is a sequence of site values; a batch is a sequence of configurations.  *)
(* Log-amplitudes are small integers read as base-2 logarithms, and        *)
(* exp(a - b) is the fixed-point number 2^(a - b + Bias), so that the      *)
(* unit 1.0 is One == 2^Bias and sums of ratios stay integers.  Matrix     *)
(* elements are taken on the real axis (integers).                         *)
(***************************************************************************)
EXTENDS Integers, Sequences, FiniteSets, TLC

\* ------------------------------------------------------------------ bounds
\* Largest number of samples N (rows of sigma).
MaxSamples == 3
\* Largest number of connections in all (rows of sigma', entries of mel).
MaxFlat == 6

\* chunk_size=None (the default of every chunked kernel).
None == 0

Sites == {0, 1}
\* Configurations with one degree of freedom.
Configs == {<<s>> : s \in Sites}
LogVals == {0, 1}

VARIABLES
    sigma,       \* the sample batch: N configurations
    sigmap,      \* connected configurations: [ndim |-> 2, data |-> flat rows]
                 \* or [ndim |-> 3, data |-> N rows of K configurations]
    mels,        \* matrix elements, shaped like sigmap.data without the dof axis
    secs,        \* flattened form: cumulative connection counts per sample
    N_conn,      \* flattened form: the declared total number of connections
    pars,        \* the oracle: [tab |-> table row -> log value,
                 \*              strict |-> raises on a row outside tab,
                 \*              off |-> value on such a row when not strict]
    chunk_size,  \* None or a positive integer
    res,         \* the kernel call made: [kernel, status, value, calls]
                 \* (kernel "none" before the call; calls: the batches handed
                 \* to the oracle, in order)
    cpc,         \* position of a chunked kernel run step by step:
                 \* "idle" | "sigma" | "sigmap" | "done"
    batch,       \* the batch the chunking adapter is evaluating
    pos,         \* rows of batch already evaluated
    ys,          \* results of the finished sub-calls on batch, in order
    sub,         \* every sub-call made: [on, lo, hi, rows], in order
    outs         \* concatenated results of the batches already finished

vars == <<sigma, sigmap, mels, secs, N_conn, pars, chunk_size, res,
          cpc, batch, pos, ys, sub, outs>>

inputs == <<sigma, sigmap, mels, secs, N_conn, pars, chunk_size>>
chunker == <<cpc, batch, pos, ys, sub, outs>>

\* ----------------------------------------------------------------- helpers
Min(a, b) == IF a < b THEN a ELSE b

SetMax(S) == CHOOSE x \in S : \A y \in S : y <= x

SetMin(S) == CHOOSE x \in S : \A y \in S : x <= y

\* jnp.sum over a 1-D array.
RECURSIVE Sum(_)
Sum(s) == IF s = <<>> THEN 0 ELSE Head(s) + Sum(Tail(s))

\* Row-major flattening of the two leading axes: x.reshape((-1, N)).
RECURSIVE Flatten(_)
Flatten(ss) == IF ss = <<>> THEN <<>> ELSE Head(ss) \o Flatten(Tail(ss))

Bias == SetMax(LogVals) - SetMin(LogVals)

\* jnp.exp of a difference of log values, in fixed point (One is 1.0).
Exp(d) == 2 ^ (d + Bias)

One == Exp(0)

\* jnp.hstack of two configurations.
hstack(a, b) == a \o b

\* ------------------------------------------------------------------ oracle
\* logpsi(pars, x) on one configuration.
logpsi(p, x) == IF x \in DOMAIN p.tab THEN p.tab[x] ELSE p.off

\* logpsi(pars, rows) on a batch: one value per row.
logpsi_batch(p, rows) == [r \in 1..Len(rows) |-> logpsi(p, rows[r])]

\* The oracle raises on a batch holding a row it does not accept.
Raises(p, rows) == p.strict /\ \E r \in 1..Len(rows) : rows[r] \notin DOMAIN p.tab

NoRes == [kernel |-> "none", status |-> "none", value |-> <<>>, calls |-> <<>>]

Failed(why, calls) == [status |-> why, value |-> <<>>, calls |-> calls]

\* The value of a kernel whose oracle calls were `calls`: the oracle's failure
\* propagates unchanged.
Finish(p, calls, value) ==
    IF \E c \in 1..Len(calls) : Raises(p, calls[c])
    THEN Failed("oracle_error", calls)
    ELSE [status |-> "ok", value |-> value, calls |-> calls]

\* ------------------------------------------------------------ dense kernels
\* x.reshape((n, -1) + rest) is defined when n divides the number of rows.
ReshapeOk(flat, n) == n > 0 /\ Len(flat) % n = 0

ReshapeMutK(flat, n) ==
    LET k == Len(flat) \div n
    IN  [i \in 1..n |-> [j \in 1..k |-> flat[(j - 1) * n + i]]]

\* sigma'.reshape((N, -1, dof)): flat row (i-1)*K + k goes to [i][k].
Reshape(flat, n) ==
    LET k == Len(flat) \div n
    IN  [i \in 1..n |-> [j \in 1..k |-> flat[(i - 1) * k + j]]]

local_value_1_mut_noratio(p, s, sp, mel) ==
    [val  |-> Sum([k \in 1..Len(sp) |-> mel[k] * Exp(logpsi(p, sp[k]))]),
     rows_p |-> sp,
     rows_s |-> <<s>>]

\* local_value_kernel on one sample: sum(mel * exp(logpsi(sp) - logpsi(s))),
\* with the rows it hands to the oracle.
local_value_1(p, s, sp, mel) ==
    [val  |-> Sum([k \in 1..Len(sp) |->
                     mel[k] * Exp(logpsi(p, sp[k]) - logpsi(p, s))]),
     rows_p |-> sp,
     rows_s |-> <<s>>]

\* batch_discrete_kernel, the arguments: sigma' and mels are reshaped to one
\* row of connections per sample when sigma' is not rank 3.
batch_args(s, sp, ms) ==
    LET n == Len(s)
    IN  [ok  |-> sp.ndim = 3 \/ (ReshapeOk(sp.data, n) /\ Len(ms) = Len(sp.data)),
         sp3 |-> IF sp.ndim # 3 THEN Reshape(sp.data, n) ELSE sp.data,
         ms3 |-> IF sp.ndim # 3 THEN Reshape(ms, n) ELSE ms]

\* batch_discrete_kernel, the call: jax.vmap of the one-sample kernel over the
\* samples; per[i] is the kernel on sample i.  Under vmap each oracle call of
\* the kernel is one call on the rows of all samples.
vmapped_kernel(p, per) ==
    Finish(p,
           << Flatten([i \in 1..Len(per) |-> per[i].rows_p]),
              Flatten([i \in 1..Len(per) |-> per[i].rows_s]) >>,
           [i \in 1..Len(per) |-> per[i].val])

local_value_kernel(p, s, sp, ms) ==
    LET a == batch_args(s, sp, ms)
    IN  IF ~a.ok THEN Failed("shape_error", <<>>)
        ELSE vmapped_kernel(p, [i \in 1..Len(s) |->
                                  local_value_1(p, s[i], a.sp3[i], a.ms3[i])])

\* --------------------------------------------------------- chunking adapter
\* The row ranges of the sub-calls on a batch of m rows: one whole-batch call
\* when chunk_size is None, else consecutive ranges of at most c rows.
ChunkRanges(m, c) ==
    IF c = None THEN << <<1, m>> >>
    ELSE [k \in 1..((m + c - 1) \div c) |-> <<(k - 1) * c + 1, Min(k * c, m)>>]

\* nkjax.vmap_chunked(partial(logpsi, pars), in_axes=0, chunk_size=c)(rows):
\* the sub-batches handed to the oracle, and the concatenated results.
vmap_chunked(p, c, rows) ==
    LET rg    == ChunkRanges(Len(rows), c)
        calls == [k \in 1..Len(rg) |-> SubSeq(rows, rg[k][1], rg[k][2])]
    IN  [calls |-> calls,
         out   |-> Flatten([k \in 1..Len(calls) |-> logpsi_batch(p, calls[k])])]

\* The two batches a chunked dense kernel hands to the chunking adapter:
\* sigma.reshape((-1, N)) and sigma'.reshape((-1, N)), rank-3 sigma' row-major.
dense_batches_mut(s, sp3) ==
    <<s, Flatten([k \in 1..Len(sp3[1]) |-> [i \in 1..Len(sp3) |-> sp3[i][k]]])>>

dense_batches(s, sp3) == <<s, Flatten(sp3)>>

\* jnp.sum(mels * jnp.exp(logpsi_sp - logpsi_s), axis=-1) with logpsi_s of
\* shape (N, 1) and the flat logpsi_sp reshaped to (N, K).
dense_sum(ms3, lp_s, lp_sp) ==
    LET n  == Len(lp_s)
        lp == Reshape(lp_sp, n)
    IN  [i \in 1..n |-> Sum([k \in 1..Len(ms3[i]) |->
                               ms3[i][k] * Exp(lp[i][k] - lp_s[i])])]

local_value_kernel_chunked_mut(p, s, sp, ms, c) ==
    LET n == Len(s)
        sp3 == IF sp.ndim # 3 THEN Reshape(sp.data, n) ELSE sp.data
        ms3 == IF sp.ndim # 3 THEN Reshape(ms, n) ELSE ms
        ev_s  == vmap_chunked(p, c, dense_batches(s, sp3)[1])
        ev_sp == vmap_chunked(p, c, dense_batches(s, sp3)[2])
    IN  Finish(p, ev_s.calls \o ev_sp.calls,
               dense_sum(ms3, [i \in 1..n |-> ev_s.out[1]], ev_sp.out))

\* local_value_kernel_chunked: logpsi on sigma and on the flattened sigma'
\* through the chunking adapter, then sum(mels * exp(...), axis=-1).
local_value_kernel_chunked(p, s, sp, ms, c) ==
    LET n == Len(s)
        ok3 == sp.ndim = 3 \/ (ReshapeOk(sp.data, n) /\ Len(ms) = Len(sp.data))
        sp3 == IF sp.ndim # 3 THEN Reshape(sp.data, n) ELSE sp.data
        ms3 == IF sp.ndim # 3 THEN Reshape(ms, n) ELSE ms
        ev_s  == vmap_chunked(p, c, dense_batches(s, sp3)[1])
        ev_sp == vmap_chunked(p, c, dense_batches(s, sp3)[2])
    IN  IF ~ok3 THEN Failed("shape_error", <<>>)
        ELSE Finish(p, ev_s.calls \o ev_sp.calls, dense_sum(ms3, ev_s.out, ev_sp.out))

\* -------------------------------------------------------- flattened kernels
\* jnp.diff(secs, prepend=0): the per-sample connection counts.
diff_prepend0(sc) == [i \in 1..Len(sc) |-> sc[i] - (IF i = 1 THEN 0 ELSE sc[i - 1])]

\* jnp.repeat(., ns, total_repeat_length=t) gathers with these indices: entry j
\* is the number of samples whose block starts (the exclusive cumulative sum of
\* ns) lie at or before position j.  Starts at or past t are dropped, so the
\* repeats are truncated to t entries or padded with the last index.
gather_indices_mut(ns, t) ==
    LET start == [i \in 1..Len(ns) |-> Sum(SubSeq(ns, 1, i - 1))]
    IN  [j \in 1..t |-> Cardinality({i \in 1..Len(ns) : ns[i] > 0 /\ start[i] < j})]

gather_indices_mut_pad(ns, t) ==
    LET start == [i \in 1..Len(ns) |-> Sum(SubSeq(ns, 1, i - 1))]
    IN  [j \in 1..t |-> IF j > Sum(ns) THEN 1
                        ELSE Cardinality({i \in 1..Len(ns) : start[i] < j})]

gather_indices(ns, t) ==
    LET start == [i \in 1..Len(ns) |-> Sum(SubSeq(ns, 1, i - 1))]
    IN  [j \in 1..t |-> Cardinality({i \in 1..Len(ns) : start[i] < j})]

\* jnp.repeat(a, ns, total_repeat_length=t) on a 1-D array a.
repeat(a, ns, t) == LET g == gather_indices(ns, t) IN [j \in 1..t |-> a[g[j]]]

\* NumPy broadcasting of two 1-D lengths; -1 when they are incompatible.
Broadcast(a, b) ==
    IF a = b THEN a ELSE IF a = 1 THEN b ELSE IF b = 1 THEN a ELSE -1

\* Element j of a 1-D array broadcast to a longer one.
At(a, j) == IF Len(a) = 1 THEN a[1] ELSE a[j]

segment_sum_mut(data, ids, num) ==
    [i \in 1..num |->
        Sum([j \in 1..Len(ids) |-> IF ids[j] <= i THEN At(data, j) ELSE 0])]

\* jax.ops.segment_sum(data, ids, num_segments=num): bucket i sums the data
\* whose id is i; a bucket no id names stays zero.
segment_sum(data, ids, num) ==
    [i \in 1..num |->
        Sum([j \in 1..Len(ids) |-> IF ids[j] = i THEN At(data, j) ELSE 0])]

\* jnp.repeat(jnp.arange(N_samples), ns, total_repeat_length=N_conn), 1-based.
indices(n, ns, t) == repeat([i \in 1..n |-> i], ns, t)

\* The part the flattened kernels share once the oracle has run:
\* repeat, mels * exp(.), repeat of arange, segment_sum.
flat_reduce(p, calls, lp_s, lp_sp, ms, sc, t) ==
    LET n     == Len(lp_s)
        ns    == diff_prepend0(sc)
        ext   == repeat(lp_s, ns, t)
        d     == Broadcast(Len(ms), Broadcast(Len(lp_sp), t))
        delta == [j \in 1..d |-> At(ms, j) * Exp(At(lp_sp, j) - At(ext, j))]
        ids   == indices(n, ns, t)
    IN  IF Broadcast(Len(lp_sp), t) = -1 \/ d = -1 \/ Broadcast(d, t) # t
        THEN Failed("shape_error", calls)
        ELSE Finish(p, calls, segment_sum(delta, ids, n))

\* local_value_kernel_flattened: one oracle call on sigma, one on sigma'.
local_value_kernel_flattened(p, s, sp, ms, sc, t) ==
    flat_reduce(p, <<s, sp.data>>,
                logpsi_batch(p, s), logpsi_batch(p, sp.data), ms, sc, t)

local_value_kernel_flattened_chunked_mut(p, s, sp, ms, sc, t, c) ==
    LET ev_s  == vmap_chunked(p, c, s)
        ev_sp == vmap_chunked(p, c, sp.data)
    IN  flat_reduce(p, ev_s.calls \o ev_sp.calls, ev_s.out, ev_sp.out, ms, sc, Len(s))

\* local_value_kernel_flattened_chunked: the same through the chunking adapter.
local_value_kernel_flattened_chunked(p, s, sp, ms, sc, t, c) ==
    LET ev_s  == vmap_chunked(p, c, s)
        ev_sp == vmap_chunked(p, c, sp.data)
    IN  flat_reduce(p, ev_s.calls \o ev_sp.calls, ev_s.out, ev_sp.out, ms, sc, t)


\* ------------------------------------------------ mixed-state (op_op) kernels
local_value_op_op_cost_1_mut_bra(p, s, sp, mel) ==
    LET s_sp == [k \in 1..Len(sp) |-> hstack(s, sp[k])]
        s_s  == hstack(s, s)
    IN  [val  |-> Sum([k \in 1..Len(sp) |->
                     mel[k] * Exp(logpsi(p, s_sp[k]) - logpsi(p, s_s))]),
         rows_p |-> s_sp,
         rows_s |-> <<s_s>>]

\* local_value_op_op_cost on one sample: the oracle sees hstack(sp[k], s) and
\* hstack(s, s).
local_value_op_op_cost_1(p, s, sp, mel) ==
    LET s_sp == [k \in 1..Len(sp) |-> hstack(sp[k], s)]
        s_s  == hstack(s, s)
    IN  [val  |-> Sum([k \in 1..Len(sp) |->
                     mel[k] * Exp(logpsi(p, s_sp[k]) - logpsi(p, s_s))]),
         rows_p |-> s_sp,
         rows_s |-> <<s_s>>]

local_value_op_op_cost(p, s, sp, ms) ==
    LET a == batch_args(s, sp, ms)
    IN  IF ~a.ok THEN Failed("shape_error", <<>>)
        ELSE vmapped_kernel(p, [i \in 1..Len(s) |->
                                  local_value_op_op_cost_1(p, s[i], a.sp3[i], a.ms3[i])])

\* local_value_op_op_cost_chunked: build the doubled configurations sample by
\* sample, then local_value_kernel_chunked on them.
local_value_op_op_cost_chunked(p, s, sp, ms, c) ==
    LET n == Len(s)
        ok3 == sp.ndim = 3 \/ (ReshapeOk(sp.data, n) /\ Len(ms) = Len(sp.data))
        sp3 == IF sp.ndim # 3 THEN Reshape(sp.data, n) ELSE sp.data
        ms3 == IF sp.ndim # 3 THEN Reshape(ms, n) ELSE ms
        s_sp == [i \in 1..n |-> [k \in 1..Len(sp3[i]) |-> hstack(sp3[i][k], s[i])]]
        s_s  == [i \in 1..n |-> hstack(s[i], s[i])]
    IN  IF ~ok3 THEN Failed("shape_error", <<>>)
        ELSE local_value_kernel_chunked(p, s_s, [ndim |-> 3, data |-> s_sp], ms3, c)

\* local_value_op_op_kernel_flattened (the second definition, which replaces
\* the first of the same name; chunk_size=None gives the first one's calls).
\* jnp.repeat(sigma, ns, total_repeat_length=N_conn) has no axis, so it works on
\* the ravelled sigma and yields site values, each handed to the oracle as a row
\* of its own; eta is unpacked and not used.
local_value_op_op_kernel_flattened(p, s, eta, ms, sc, t, c) ==
    LET n     == Len(s)
        ns    == diff_prepend0(sc)
        s_eta == repeat(Flatten(s), ns, t)
        s_s   == [i \in 1..n |-> hstack(s[i], s[i])]
        ev_ss == vmap_chunked(p, c, s_s)
        ev_se == vmap_chunked(p, c, [j \in 1..t |-> <<s_eta[j]>>])
    IN  flat_reduce(p, ev_ss.calls \o ev_se.calls, ev_ss.out, ev_se.out, ms, sc, t)

\* ------------------------------------------------------------------ inputs
\* The chunk sizes of the chunk-invariance property, for a batch of n samples.
ChunkSizes(n) == {1, 2, n, n + 7, None}

\* Matrix elements for L connections: all ones, or pairwise distinct.
MelSeqs(L) == {[j \in 1..L |-> 1], [j \in 1..L |-> j]}

\* Pairwise distinct matrix elements.
MelRamp(L) == [j \in 1..L |-> j]

\* Batches of L configurations that change value at most once along the batch.
StepSeqs(L) ==
    {[j \in 1..L |-> IF j <= a THEN <<x>> ELSE <<1 - x>>] : a \in 1..L, x \in Sites}

\* Oracles on single configurations, normalised to log value 0 on the all-zero
\* configuration (the kernels read differences of log values only).
KetOracles ==
    {[tab |-> t, strict |-> TRUE, off |-> 0] :
        t \in {f \in [Configs -> LogVals] : f[<<0>>] = 0}}

Doubled == {hstack(a, b) : a \in Configs, b \in Configs}

\* Oracles on doubled configurations (log-density), normalised likewise.
OpTables == {f \in [Doubled -> LogVals] : f[<<0, 0>>] = 0}

OpOracles == {[tab |-> t, strict |-> TRUE, off |-> 0] : t \in OpTables}

\* What a log-density oracle does with a row that is no doubled configuration
\* is not fixed by the kernels: it raises, or it returns some value.
LaxOpOracles ==
    OpOracles \cup {[tab |-> t, strict |-> FALSE, off |-> v] : t \in OpTables, v \in LogVals}

\* Non-decreasing section boundaries of n samples with entries up to top.
Boundaries(n, top) ==
    {sc \in [1..n -> 0..top] : \A i \in 1..(n - 1) : sc[i] <= sc[i + 1]}

\* Valid secs: non-decreasing and ending at L.
Secs(n, L) == {sc \in Boundaries(n, L) : sc[n] = L}

Idle ==
    /\ cpc = "idle" /\ batch = <<>> /\ pos = 0
    /\ ys = <<>> /\ sub = <<>> /\ outs = <<>>

\* Flat rows grouped K to a sample, row-major.
Batched(flat, n, k) == [i \in 1..n |-> [j \in 1..k |-> flat[(i - 1) * k + j]]]

\* Dense inputs: sigma of N rows, sigma'/mel with K connections per sample
\* (N*K <= top), given flat (rank 2) or already batched (rank 3).
DenseInputs(oracles, top) ==
    /\ \E n \in 1..MaxSamples : \E k \in 1..(top \div n) :
         /\ sigma \in [1..n -> Configs]
         /\ \E flat \in [1..(n * k) -> Configs], m \in MelSeqs(n * k), d \in {2, 3} :
              /\ sigmap = [ndim |-> d,
                           data |-> IF d = 3 THEN Batched(flat, n, k) ELSE flat]
              /\ mels = IF d = 3 THEN Batched(m, n, k) ELSE m
    /\ secs = <<>> /\ N_conn = 0
    /\ chunk_size = None
    /\ pars \in oracles
    /\ res = NoRes
    /\ Idle

InitDense == DenseInputs(KetOracles, MaxFlat)

InitOp == DenseInputs(OpOracles, MaxFlat - 1)

\* secs inconsistent with N_conn: non-decreasing and not ending at N_conn.
BadSecs(n, L) == {sc \in Boundaries(n, L + 1) : sc[n] # L}

\* Flattened inputs with up to top connections: N_conn rows of sigma' and mel,
\* secs consistent with N_conn, or inconsistent when bad.
FlatInputs(top, bad) ==
    /\ \E n \in 1..MaxSamples, L \in 1..top :
         /\ sigma \in [1..n -> Configs]
         /\ \E flat \in StepSeqs(L) : sigmap = [ndim |-> 2, data |-> flat]
         /\ mels = MelRamp(L)
         /\ secs \in (IF bad THEN BadSecs(n, L) ELSE Secs(n, L))
         /\ N_conn = L
    /\ chunk_size = None
    /\ pars \in KetOracles
    /\ res = NoRes
    /\ Idle

\* secs non-decreasing and ending at N_conn.
InitFlat == FlatInputs(MaxFlat, FALSE)

\* The chunked runs are explored on shorter buffers: every chunk size is a
\* run of its own.
InitFlatChunk == FlatInputs(MaxFlat - 2, FALSE)

InitFlatBad == FlatInputs(MaxFlat - 3, TRUE)

\* Valid flattened inputs of the mixed-state kernel.
InitOpFlat ==
    /\ \E n \in 1..(MaxSamples - 1), L \in 1..(MaxFlat - 3) :
         /\ sigma \in [1..n -> Configs]
         /\ \E flat \in [1..L -> Configs] : sigmap = [ndim |-> 2, data |-> flat]
         /\ mels = MelRamp(L)
         /\ secs \in Secs(n, L)
         /\ N_conn = L
    /\ chunk_size = None
    /\ pars \in LaxOpOracles
    /\ res = NoRes
    /\ Idle

\* ----------------------------------------------------------------- actions
\* Each behaviour is one estimation call: a kernel applied to the inputs.
Called(k, r) == [kernel |-> k, status |-> r.status, value |-> r.value, calls |-> r.calls]

LocalValueKernel ==
    /\ res.kernel = "none"
    /\ res' = Called("lv", local_value_kernel(pars, sigma, sigmap, mels))
    /\ UNCHANGED <<inputs, chunker>>

LocalValueKernelChunked ==
    /\ res.kernel = "none"
    /\ \E c \in ChunkSizes(Len(sigma)) :
         /\ chunk_size' = c
         /\ res' = Called("lvc", local_value_kernel_chunked(pars, sigma, sigmap, mels, c))
    /\ UNCHANGED <<sigma, sigmap, mels, secs, N_conn, pars, chunker>>

LocalValueKernelFlattened ==
    /\ res.kernel = "none"
    /\ res' = Called("fl", local_value_kernel_flattened(
                             pars, sigma, sigmap, mels, secs, N_conn))
    /\ UNCHANGED <<inputs, chunker>>

LocalValueKernelFlattenedChunked ==
    /\ res.kernel = "none"
    /\ \E c \in ChunkSizes(Len(sigma)) :
         /\ chunk_size' = c
         /\ res' = Called("flc", local_value_kernel_flattened_chunked(
                                   pars, sigma, sigmap, mels, secs, N_conn, c))
    /\ UNCHANGED <<sigma, sigmap, mels, secs, N_conn, pars, chunker>>

LocalValueOpOpCost ==
    /\ res.kernel = "none"
    /\ res' = Called("op", local_value_op_op_cost(pars, sigma, sigmap, mels))
    /\ UNCHANGED <<inputs, chunker>>

LocalValueOpOpCostChunked ==
    /\ res.kernel = "none"
    /\ \E c \in ChunkSizes(Len(sigma)) :
         /\ chunk_size' = c
         /\ res' = Called("opc", local_value_op_op_cost_chunked(
                                   pars, sigma, sigmap, mels, c))
    /\ UNCHANGED <<sigma, sigmap, mels, secs, N_conn, pars, chunker>>

LocalValueOpOpKernelFlattened ==
    /\ res.kernel = "none"
    /\ \E c \in ChunkSizes(Len(sigma)) :
         /\ chunk_size' = c
         /\ res' = Called("opfl", local_value_op_op_kernel_flattened(
                                    pars, sigma, sigmap.data, mels, secs, N_conn, c))
    /\ UNCHANGED <<sigma, sigmap, mels, secs, N_conn, pars, chunker>>


\* -------------------------------------------- chunked kernels, step by step
\* The same chunked kernels with every sub-call of the chunking adapter a step
\* of its own: the kernel hands sigma to the adapter, then sigma', then reduces.
\* Inputs that both the dense and the flattened chunked kernel accept: K
\* connections per sample, sigma' flat, secs = [K, 2K, ..., NK].
InitSched ==
    /\ \E n \in 1..MaxSamples : \E k \in 1..(MaxFlat \div n) :
         /\ sigma \in [1..n -> Configs]
         /\ \E flat \in StepSeqs(n * k) : sigmap = [ndim |-> 2, data |-> flat]
         /\ mels = MelRamp(n * k)
         /\ secs = [i \in 1..n |-> i * k]
         /\ N_conn = n * k
    /\ chunk_size = None
    /\ pars \in KetOracles
    /\ res = NoRes
    /\ Idle

\* The batches kernel k hands to the adapter, in the order of its two calls.
chunked_batches(k) ==
    IF k = "lvc"
    THEN dense_batches(sigma, IF sigmap.ndim # 3 THEN Reshape(sigmap.data, Len(sigma))
                                                 ELSE sigmap.data)
    ELSE <<sigma, sigmap.data>>

\* The kernel is entered with a chunk size and hands sigma to the adapter.
StartChunked ==
    /\ cpc = "idle" /\ res.kernel = "none"
    /\ \E k \in {"lvc", "flc"}, c \in ChunkSizes(Len(sigma)) :
         /\ chunk_size' = c
         /\ res' = [NoRes EXCEPT !.kernel = k, !.status = "running"]
         /\ batch' = chunked_batches(k)[1]
    /\ pos' = 0 /\ ys' = <<>> /\ cpc' = "sigma"
    /\ UNCHANGED <<sigma, sigmap, mels, secs, N_conn, pars, sub, outs>>

\* One sub-call: the oracle on the next rows of the batch, at most chunk_size
\* of them (all of them when chunk_size is None); it returns before the next
\* one is made.
SubCall ==
    /\ cpc \in {"sigma", "sigmap"} /\ pos < Len(batch)
    /\ LET hi   == IF chunk_size = None THEN Len(batch)
                   ELSE Min(pos + chunk_size, Len(batch))
           rows == SubSeq(batch, pos + 1, hi)
       IN  /\ ys' = Append(ys, logpsi_batch(pars, rows))
           /\ sub' = Append(sub, [on |-> cpc, lo |-> pos + 1, hi |-> hi, rows |-> rows])
           /\ pos' = hi
    /\ UNCHANGED <<inputs, res, cpc, batch, outs>>

\* The adapter concatenates the results on sigma; the kernel hands it sigma'.
NextBatch ==
    /\ cpc = "sigma" /\ pos = Len(batch)
    /\ outs' = Append(outs, Flatten(ys))
    /\ batch' = chunked_batches(res.kernel)[2]
    /\ pos' = 0 /\ ys' = <<>> /\ cpc' = "sigmap"
    /\ UNCHANGED <<inputs, res, sub>>

\* The adapter concatenates the results on sigma'; the kernel reduces.
Reduce ==
    /\ cpc = "sigmap" /\ pos = Len(batch)
    /\ LET lp_s  == outs[1]
           lp_sp == Flatten(ys)
           calls == [k \in 1..Len(sub) |-> sub[k].rows]
       IN  /\ outs' = Append(outs, lp_sp)
           /\ res' = Called(res.kernel,
                       IF res.kernel = "lvc"
                       THEN Finish(pars, calls,
                                   dense_sum(Reshape(mels, Len(sigma)), lp_s, lp_sp))
                       ELSE flat_reduce(pars, calls, lp_s, lp_sp, mels, secs, N_conn))
    /\ cpc' = "done"
    /\ UNCHANGED <<inputs, batch, pos, ys, sub>>

\* ---------------------------------------------------------- specifications
NextDense == LocalValueKernel \/ LocalValueKernelChunked

SpecDense == InitDense /\ [][NextDense]_vars

NextFlat == LocalValueKernelFlattened

SpecFlat == InitFlat /\ [][NextFlat]_vars

NextFlatChunk == LocalValueKernelFlattened \/ LocalValueKernelFlattenedChunked

SpecFlatChunk == InitFlatChunk /\ [][NextFlatChunk]_vars

SpecFlatBad == InitFlatBad /\ [][NextFlatChunk]_vars

NextOp == LocalValueOpOpCost \/ LocalValueOpOpCostChunked

SpecOp == InitOp /\ [][NextOp]_vars

NextOpFlat == LocalValueOpOpKernelFlattened

SpecOpFlat == InitOpFlat /\ [][NextOpFlat]_vars

NextSched == StartChunked \/ SubCall \/ NextBatch \/ Reduce

SpecSched == InitSched /\ [][NextSched]_vars

\* ------------------------------------------------------------------ claims
\* What the claims read off a state.
NSamples == Len(sigma)

\* The rows of sigma' in flat row-major order, whatever its rank.
FlatRows == IF sigmap.ndim = 3 THEN Flatten(sigmap.data) ELSE sigmap.data

FlatMels == IF sigmap.ndim = 3 THEN Flatten(mels) ELSE mels

\* Connections per sample of a dense input.
KConn == Len(FlatRows) \div NSamples

\* The oracle's value on a configuration of the sample batch / of sigma'.
Psi(x) == pars.tab[x]

\* C1: on every valid dense input (rank-3 or flat) and for every chunk size in
\* {1, 2, N, N+7, None}, local_value_kernel_chunked returns the same length-N
\* vector as local_value_kernel, and with chunk_size=None the oracle is called
\* once on all of sigma and once on all rows of sigma'.
C1_DenseChunkInvariance ==
    res.kernel = "lvc" =>
        LET u == local_value_kernel(pars, sigma, sigmap, mels)
        IN  /\ res.status = "ok" /\ u.status = "ok"
            /\ Len(res.value) = NSamples
            /\ res.value = u.value
            /\ chunk_size = None => res.calls = <<sigma, FlatRows>>

\* A chunked dense call with a chunk size that divides neither the 3 samples
\* nor the 3 rows of sigma', on samples whose values differ.
C1_Witness ==
    /\ res.kernel = "lvc" /\ res.status = "ok"
    /\ chunk_size = 2 /\ NSamples = 3 /\ Len(FlatRows) = 3
    /\ Len(res.calls) = 4
    /\ res.value[1] # res.value[2] /\ res.value[2] # res.value[3]

\* C8: local_value_kernel returns exactly N entries, and when mel is all ones
\* and every connection of a sample is the sample itself each entry is K (in
\* fixed point K * One); so sigma = [[0],[1],[0]] with one self-connection each,
\* mel = 1 and an oracle that is 0 everywhere gives [1, 1, 1].
C8_LengthAndSelfConnections ==
    res.kernel = "lv" =>
        /\ res.status = "ok"
        /\ Len(res.value) = NSamples
        /\ ( /\ \A j \in 1..Len(FlatMels) : FlatMels[j] = 1
             /\ \A j \in 1..Len(FlatRows) : FlatRows[j] = sigma[((j - 1) \div KConn) + 1] )
           => \A i \in 1..NSamples : res.value[i] = KConn * One
        /\ ( /\ sigma = << <<0>>, <<1>>, <<0>> >>
             /\ FlatRows = sigma /\ FlatMels = <<1, 1, 1>>
             /\ \A x \in Configs : Psi(x) = 0 )
           => res.value = <<One, One, One>>

\* Two self-connections per sample with unit matrix elements, under an oracle
\* that tells the two samples apart.
C8_Witness ==
    /\ res.kernel = "lv"
    /\ sigma = << <<0>>, <<1>> >>
    /\ FlatRows = << <<0>>, <<0>>, <<1>>, <<1>> >>
    /\ FlatMels = <<1, 1, 1, 1>>
    /\ Psi(<<1>>) = 1
    /\ res.value = <<2 * One, 2 * One>>

\* C10: a sigma'/mel that is not rank 3 is grouped K = (flat count) / N to a
\* sample, flat connection j (0-based) going to sample j div K at position
\* j mod K, so that each sample sums exactly its own K connections; a rank-3
\* sigma' is summed row by row as given.  Both for local_value_kernel and for
\* local_value_kernel_chunked.
C10_DenseReshapeGrouping ==
    res.kernel \in {"lv", "lvc"} =>
        /\ res.status = "ok"
        /\ sigmap.ndim # 3 =>
             LET L == Len(sigmap.data)
                 K == L \div NSamples
             IN  \A i \in 0..(NSamples - 1) :
                    res.value[i + 1] =
                      Sum([j \in 1..L |->
                             IF (j - 1) \div K = i
                             THEN mels[j] * Exp(Psi(sigmap.data[j]) - Psi(sigma[i + 1]))
                             ELSE 0])
        /\ sigmap.ndim = 3 =>
             \A i \in 1..NSamples :
                res.value[i] =
                  Sum([k \in 1..Len(sigmap.data[i]) |->
                         mels[i][k] * Exp(Psi(sigmap.data[i][k]) - Psi(sigma[i]))])

\* A flat sigma' of 6 rows for 3 samples (K = 2) whose two groupings,
\* row-major and column-major, give different sums.
C10_Witness ==
    /\ res.kernel = "lv" /\ res.status = "ok"
    /\ sigmap.ndim = 2 /\ NSamples = 3 /\ Len(sigmap.data) = 6
    /\ mels = <<1, 2, 3, 4, 5, 6>>
    /\ \A i \in 1..3 : sigma[i] = <<0>>
    /\ \A j \in 1..6 : sigmap.data[j] = <<0>>
    /\ res.value = <<3 * One, 7 * One, 11 * One>>

\* The boundary before sample i (1-based): secs[i-1], and 0 for the first.
SecLo(i) == IF i = 1 THEN 0 ELSE secs[i - 1]

\* Sample i's own sum over the flattened connections lo+1..hi.
OwnSum(i, lo, hi) ==
    Sum([j \in 1..Len(sigmap.data) |->
           IF lo < j /\ j <= hi
           THEN mels[j] * Exp(Psi(sigmap.data[j]) - Psi(sigma[i]))
           ELSE 0])

\* secs = [K, 2K, ..., NK] for some K >= 1.
UniformSecs ==
    /\ N_conn % NSamples = 0
    /\ \A i \in 1..NSamples : secs[i] = i * (N_conn \div NSamples)

\* C2: on every valid flattened input and for every chunk size (dividing
\* N_samples and N_conn or not, larger than either, or None),
\* local_value_kernel_flattened_chunked returns the per-sample vector of
\* local_value_kernel_flattened.
C2_FlatChunkInvariance ==
    res.kernel = "flc" =>
        LET u == local_value_kernel_flattened(pars, sigma, sigmap, mels, secs, N_conn)
        IN  /\ res.status = "ok" /\ u.status = "ok"
            /\ Len(res.value) = NSamples
            /\ res.value = u.value

\* A chunked flattened call on ragged secs with a chunk size dividing neither
\* the 3 samples nor the 3 connections, the oracle telling the rows apart.
C2_Witness ==
    /\ res.kernel = "flc" /\ res.status = "ok"
    /\ chunk_size = 2 /\ NSamples = 3 /\ N_conn = 3
    /\ secs = <<2, 2, 3>>
    /\ Len(res.calls) = 4
    /\ Psi(<<1>>) = 1 /\ sigma[1] # sigma[3] /\ sigmap.data[1] # sigmap.data[3]

\* C5: for a dense input with uniform K connections per sample, the flattened
\* kernel on its row-major flattening with secs = [K, 2K, ..., NK] and
\* N_conn = N*K gives every sample the value local_value_kernel gives it on
\* the dense (N, K) input.
C5_FlattenDenseEquivalence ==
    (res.kernel = "fl" /\ UniformSecs) =>
        LET K == N_conn \div NSamples
            d == local_value_kernel(
                     pars, sigma,
                     [ndim |-> 3, data |-> Batched(sigmap.data, NSamples, K)],
                     Batched(mels, NSamples, K))
        IN  /\ res.status = "ok" /\ d.status = "ok"
            /\ \A i \in 1..NSamples : res.value[i] = d.value[i]

\* A flattened call on 3 samples with K = 2, the oracle telling rows apart.
C5_Witness ==
    /\ res.kernel = "fl" /\ res.status = "ok"
    /\ secs = <<2, 4, 6>> /\ N_conn = 6
    /\ Psi(<<1>>) = 1
    /\ sigma[1] # sigma[2]
    /\ sigmap.data[1] # sigmap.data[6]
    /\ res.value[1] # res.value[3]

\* C6: for valid secs the index array repeat(arange(N), ns) is non-decreasing
\* and gives flattened connection j (0-based) the sample i with
\* secs[i-1] <= j < secs[i]; the output has exactly N_samples entries, entry i
\* the sum of mel[j] * exp(psi(sigma'[j]) - psi(sigma[i])) over that sample's
\* own connections, and exactly zero for a sample without connections, the
\* later samples not shifted.
C6_SegmentSum ==
    res.kernel = "fl" =>
        LET ids == indices(NSamples, diff_prepend0(secs), N_conn)
        IN  /\ Len(ids) = N_conn
            /\ \A j \in 1..(N_conn - 1) : ids[j] <= ids[j + 1]
            /\ \A j \in 0..(N_conn - 1) :
                  /\ ids[j + 1] \in 1..NSamples
                  /\ SecLo(ids[j + 1]) <= j /\ j < secs[ids[j + 1]]
            /\ res.status = "ok"
            /\ Len(res.value) = NSamples
            /\ \A i \in 1..NSamples :
                  /\ res.value[i] = OwnSum(i, SecLo(i), secs[i])
                  /\ secs[i] = SecLo(i) => res.value[i] = 0

\* secs = [2, 2, 5]: sample 0 has two connections, sample 1 none, sample 2
\* three; the middle bucket is zero and the outer ones are not.
C6_Witness ==
    /\ res.kernel = "fl" /\ res.status = "ok"
    /\ secs = <<2, 2, 5>>
    /\ indices(3, diff_prepend0(secs), N_conn) = <<1, 1, 3, 3, 3>>
    /\ Len(res.value) = 3
    /\ res.value[2] = 0 /\ res.value[1] > 0 /\ res.value[3] > 0
    /\ res.value[1] # res.value[3]

\* C4 as stated: with secs inconsistent with N_conn the flattened kernels fail
\* with a shape error and return no per-sample values.
C4_FailsOnInconsistentSecs ==
    (res.kernel \in {"fl", "flc"} /\ secs[NSamples] # N_conn) =>
        /\ res.status = "shape_error"
        /\ res.value = <<>>

\* C4 amended: with sigma'/mel of N_conn rows and secs not ending at N_conn,
\* the flattened kernels raise nothing and return N_samples values: the
\* repeats are cut to the first N_conn connections when secs ends past N_conn,
\* and the connections past the end of secs go to the last sample when secs
\* ends before N_conn.
C4_TruncatesOrPads ==
    (res.kernel \in {"fl", "flc"} /\ secs[NSamples] # N_conn) =>
        /\ res.status = "ok"
        /\ Len(res.value) = NSamples
        /\ \A i \in 1..NSamples :
              res.value[i] =
                OwnSum(i, SecLo(i),
                       IF i = NSamples /\ secs[i] < N_conn THEN N_conn ELSE secs[i])

\* Both cases at once is impossible; the witness is the padded one with a
\* sample that has no connections before the padding.
C4_Witness ==
    /\ res.kernel = "flc" /\ res.status = "ok"
    /\ NSamples = 3 /\ N_conn = 3
    /\ secs = <<1, 1, 2>>
    /\ res.value[2] = 0 /\ res.value[3] > 0

\* The truncated case: secs ends past N_conn.
C4_WitnessTruncated ==
    /\ res.kernel = "fl" /\ res.status = "ok"
    /\ N_conn = 3 /\ secs = <<2, 3, 4>>
    /\ res.value[3] = 0

\* Row (i, k) of sigma' (1-based), whatever its rank.
SigmapAt(i, k) ==
    IF sigmap.ndim = 3 THEN sigmap.data[i][k] ELSE sigmap.data[(i - 1) * KConn + k]

\* C7: in local_value_op_op_cost and local_value_op_op_cost_chunked the
\* oracle sees, for every sample i, hstack(sigma[i], sigma[i]) for the diagonal
\* term and hstack(sigma'[i,k], sigma[i]) for every connection k: the second
\* half is always the sigma[i] of the same sample.
C7_MixedStateDoubling ==
    res.kernel \in {"op", "opc"} =>
        LET all  == Flatten(res.calls)
            n    == NSamples
            L    == Len(FlatRows)
            diag == IF res.kernel = "op" THEN SubSeq(all, L + 1, L + n)
                                         ELSE SubSeq(all, 1, n)
            conn == IF res.kernel = "op" THEN SubSeq(all, 1, L)
                                         ELSE SubSeq(all, n + 1, n + L)
        IN  /\ res.status = "ok"
            /\ Len(all) = n + L
            /\ \A i \in 1..n :
                  /\ diag[i] = hstack(sigma[i], sigma[i])
                  /\ \A k \in 1..KConn :
                        LET row == conn[(i - 1) * KConn + k]
                        IN  /\ row = hstack(SigmapAt(i, k), sigma[i])
                            /\ SubSeq(row, Len(sigma[i]) + 1, Len(row)) = sigma[i]

\* A chunked mixed-state call on two different samples with two connections
\* each, one of them to the other sample's configuration.
C7_Witness ==
    /\ res.kernel = "opc" /\ res.status = "ok"
    /\ NSamples = 2 /\ KConn = 2
    /\ sigma[1] # sigma[2]
    /\ SigmapAt(1, 1) = sigma[2] /\ SigmapAt(2, 2) = sigma[1]
    /\ chunk_size = 1

\* C3 as stated: the flattened mixed-state kernel hands the oracle
\* hstack(sigma[i], sigma[i]) for every sample and hstack(eta[j], sigma[i]) for
\* every connection j of sample i, and on uniform secs returns what
\* local_value_op_op_cost returns on the same data.
C3_FlattenedOpOpMirrorsDense ==
    res.kernel = "opfl" =>
        LET all == Flatten(res.calls)
            n   == NSamples
        IN  /\ Len(all) = n + N_conn
            /\ \A i \in 1..n :
                  /\ all[i] = hstack(sigma[i], sigma[i])
                  /\ \A j \in 1..N_conn :
                        (SecLo(i) < j /\ j <= secs[i]) =>
                            all[n + j] = hstack(sigmap.data[j], sigma[i])
            /\ UniformSecs =>
                  LET d == local_value_op_op_cost(pars, sigma, sigmap, mels)
                  IN  res.status = "ok" /\ res.value = d.value

\* The sub-calls made on one of the two batches, in the order they were made.
SubsOn(b) == SelectSeq(sub, LAMBDA e : e.on = b)

\* The sub-calls on one batch are consecutive row ranges of at most chunk_size
\* rows, starting at the first row, each holding the rows of its range.
Consecutive(b, rows) ==
    LET ss == SubsOn(b)
    IN  \A k \in 1..Len(ss) :
           /\ ss[k].lo = (IF k = 1 THEN 1 ELSE ss[k - 1].hi + 1)
           /\ ss[k].lo <= ss[k].hi /\ ss[k].hi <= Len(rows)
           /\ chunk_size # None => ss[k].hi - ss[k].lo + 1 <= chunk_size
           /\ ss[k].rows = SubSeq(rows, ss[k].lo, ss[k].hi)

\* Once a batch is finished its sub-calls end at its last row, and result row
\* r is the oracle's value on input row r.
Covered(b, rows, out) ==
    LET ss == SubsOn(b)
    IN  /\ Len(ss) >= 1 /\ ss[Len(ss)].hi = Len(rows)
        /\ Flatten([k \in 1..Len(ss) |-> ss[k].rows]) = rows
        /\ Len(out) = Len(rows)
        /\ \A r \in 1..Len(rows) : out[r] = Psi(rows[r])

\* C9, the states: in a chunked kernel with chunk size c every batch handed to
\* the oracle (the N rows of sigma, then the N*K = N_conn rows of sigma') is
\* evaluated by sub-calls on consecutive ranges of at most c rows that cover
\* every row once in the original order; the sub-calls on sigma all come before
\* those on sigma'; the results are concatenated in that order.
C9_ScheduleState ==
    res.kernel \in {"lvc", "flc"} =>
        /\ Consecutive("sigma", sigma) /\ Consecutive("sigmap", sigmap.data)
        /\ \A k \in 1..Len(sub) : \A m \in 1..Len(sub) :
              (sub[k].on = "sigmap" /\ sub[m].on = "sigma") => m < k
        /\ cpc = "sigma" => SubsOn("sigmap") = <<>>
        /\ cpc \in {"sigmap", "done"} => Covered("sigma", sigma, outs[1])
        /\ cpc = "done" =>
              /\ Covered("sigmap", sigmap.data, outs[2])
              /\ res.status = "ok"
              /\ res.calls = [k \in 1..Len(sub) |-> sub[k].rows]
              /\ chunk_size = None => Len(sub) = 2

\* C9, the steps: the sub-calls are made one after another; a step makes at
\* most one, which starts at the row after the last one evaluated and has
\* returned its results when the step ends; no record of a sub-call changes.
C9_ScheduleStep ==
    /\ Len(sub') <= Len(sub) + 1
    /\ SubSeq(sub', 1, Len(sub)) = sub
    /\ Len(sub') = Len(sub) + 1 =>
          /\ sub'[Len(sub')].lo = pos + 1
          /\ pos' = sub'[Len(sub')].hi
          /\ Len(ys') = Len(ys) + 1
          /\ Len(ys'[Len(ys')]) = pos' - pos

\* C9: the chunked oracle schedule (states and steps together).
C9_ChunkedSchedule == [](C9_ScheduleState) /\ [][C9_ScheduleStep]_vars

\* A finished chunked flattened call with c = 2 on 3 samples and 3 connections:
\* two sub-calls on each batch, the second one short.
C9_Witness ==
    /\ cpc = "done" /\ res.kernel = "flc" /\ res.status = "ok"
    /\ chunk_size = 2 /\ NSamples = 3 /\ N_conn = 3
    /\ Len(sub) = 4
    /\ sub[2].lo = 3 /\ sub[2].hi = 3 /\ sub[4].lo = 3 /\ sub[4].hi = 3
    /\ outs[2][1] # outs[2][3]

\* The step-by-step runs end with the result of the kernels applied in one go.
StepwiseAgrees ==
    cpc = "done" =>
        res = Called(res.kernel,
                IF res.kernel = "lvc"
                THEN local_value_kernel_chunked(pars, sigma, sigmap, mels, chunk_size)
                ELSE local_value_kernel_flattened_chunked(
                         pars, sigma, sigmap, mels, secs, N_conn, chunk_size))

====
